---- MODULE Spec2Model ----
(***************************************************************************)
(* A model of GBpy/tools.py: vrrotmat2vec (rotation matrix -> axis, angle, *)
(* parity), vrrotvec2mat at the angles whose sine is zero, and             *)
(* unique_rows_tol (tolerance-truncated unique rows).                      *)
(*                                                                         *)
(* Numbers.  The code computes in float64 against epsilon = 1e-12.  TLC's  *)
(* integers are 32 bits wide, so a real number is modelled exactly, as a   *)
(* rational n/d whose numerator and denominator are integers of any size   *)
(* (a "Big": digits in base Radix = 10^4).  epsilon is 1/Radix^3.  A       *)
(* square root is never evaluated: s*sqrt(q) is kept as the pair (s, q) (a *)
(* "signed root"), which is exact for every matrix, and an angle phi in    *)
(* [0, pi] is kept as its cosine, [acos |-> c] standing for arccos(c).     *)
(* Rounding errors of float64 (about 1e-16, four orders below epsilon) are *)
(* not modelled.                                                           *)
(***************************************************************************)
EXTENDS Integers, Sequences, FiniteSets, TLC

\* ------------------------------------------------------------------------
\* Exact integers wider than 32 bits: a Big is the sequence of the digits
\* of an integer in base Radix, least significant first, each digit in
\* -Radix/2 + 1 .. Radix/2, with no leading zero digit (zero is <<0>>).
\* Every integer has exactly one such sequence.

Radix == 10^4

Abs(x) == IF x < 0 THEN -x ELSE x

Sgn(x) == IF x > 0 THEN 1 ELSE IF x < 0 THEN -1 ELSE 0

MaxOf(x, y) == IF x >= y THEN x ELSE y

BCoef(a, i) == IF i >= 1 /\ i <= Len(a) THEN a[i] ELSE 0

\* the tuple <<f[i], ..., f[n]>>, each element computed once
RECURSIVE Eager(_, _, _)
Eager(f, i, n) == IF i > n THEN <<>> ELSE <<f[i]>> \o Eager(f, i + 1, n)

RECURSIVE Strip(_)
Strip(a) ==
  IF Len(a) > 1 /\ a[Len(a)] = 0 THEN Strip(SubSeq(a, 1, Len(a) - 1)) ELSE a

\* the digits of sum(c[i] * Radix^(i-1)) + carry * Radix^(i-1), from i on
RECURSIVE Carry(_, _, _)
Carry(c, i, carry) ==
  IF i > Len(c) /\ carry = 0 THEN <<>>
  ELSE LET v == BCoef(c, i) + carry
           r == v % Radix
           d == IF 2 * r > Radix THEN r - Radix ELSE r
       IN <<d>> \o Carry(c, i + 1, (v - d) \div Radix)

BNorm(c) ==
  IF (\A i \in 1..Len(c) : 2 * Abs(c[i]) < Radix) /\ (Len(c) = 1 \/ c[Len(c)] # 0)
  THEN c
  ELSE LET ds == Carry(c, 1, 0) IN IF ds = <<>> THEN <<0>> ELSE Strip(ds)

BAdd(a, b) ==
  BNorm(Eager([i \in 1..MaxOf(Len(a), Len(b)) |-> BCoef(a, i) + BCoef(b, i)],
              1, MaxOf(Len(a), Len(b))))

BNeg(a) == BNorm(Eager([i \in 1..Len(a) |-> -a[i]], 1, Len(a)))

BSub(a, b) == BAdd(a, BNeg(b))

RECURSIVE ConvSum(_, _, _, _)
ConvSum(a, b, k, i) ==
  IF i > Len(a) THEN 0
  ELSE a[i] * BCoef(b, k - i + 1) + ConvSum(a, b, k, i + 1)

BMul(a, b) ==
  BNorm(Eager([k \in 1..(Len(a) + Len(b) - 1) |-> ConvSum(a, b, k, 1)],
              1, Len(a) + Len(b) - 1))

\* the sign of the leading digit
BSign(a) == Sgn(a[Len(a)])

\* ------------------------------------------------------------------------
\* Exact rationals n/d, d > 0.

Rat(n, d) == [n |-> n, d |-> d]

RInt(x) == Rat(<<x>>, <<1>>)

RNeg(x) == Rat(BNeg(x.n), x.d)

RAdd(x, y) ==
  IF x.d = y.d THEN Rat(BAdd(x.n, y.n), x.d)
  ELSE Rat(BAdd(BMul(x.n, y.d), BMul(y.n, x.d)), BMul(x.d, y.d))

RSub(x, y) == RAdd(x, RNeg(y))

RMul(x, y) == Rat(BMul(x.n, y.n), BMul(x.d, y.d))

RSign(x) == BSign(x.n)

RAbs(x) == IF RSign(x) < 0 THEN RNeg(x) ELSE x

\* x / y for y # 0
RDiv(x, y) ==
  IF BSign(y.n) > 0 THEN Rat(BMul(x.n, y.d), BMul(x.d, y.n))
  ELSE Rat(BNeg(BMul(x.n, y.d)), BMul(x.d, BNeg(y.n)))

RCmp(x, y) ==
  IF x.d = y.d THEN BSign(BSub(x.n, y.n))
  ELSE BSign(BSub(BMul(x.n, y.d), BMul(y.n, x.d)))

REq(x, y) == RCmp(x, y) = 0

RLt(x, y) == RCmp(x, y) < 0

RLe(x, y) == RCmp(x, y) <= 0

RGt(x, y) == RCmp(x, y) > 0

RMax(x, y) == IF RLt(x, y) THEN y ELSE x

\* ------------------------------------------------------------------------
\* Signed roots s*sqrt(q), q >= 0, s = 0 exactly when q = 0.

Root(s, q) == IF s = 0 \/ RSign(q) = 0 THEN [s |-> 0, q |-> RInt(0)]
              ELSE [s |-> s, q |-> q]

\* np.sqrt of a rational x >= 0
Sqrt(x) == Root(1, x)

\* the rational x as a signed root
RootOf(x) == Root(RSign(x), RMul(x, x))

RootEq(u, v) == u.s = v.s /\ REq(u.q, v.q)

RootNeg(u) == [s |-> -u.s, q |-> u.q]

\* u > x for a rational x >= 0
RootGt(u, x) == u.s > 0 /\ RGt(u.q, RMul(x, x))

\* u scaled by the integer sign f in {-1, 0, 1}
RootTimesSign(u, f) == Root(u.s * f, u.q)

\* ------------------------------------------------------------------------
\* 3x3 matrices: a sequence of three rows of three rationals.  The code's
\* indices are 0-based.

At(m, r, c) == m[r + 1][c + 1]

\* epsilon = 1e-12
epsilon == Rat(<<1>>, <<0, 0, 0, 1>>)

MatNeg(m) ==
  LET row(r) == <<RNeg(m[r][1]), RNeg(m[r][2]), RNeg(m[r][3])>>
  IN <<row(1), row(2), row(3)>>

NotNegated(m) == m

\* mat[i, :, :] = -mat[i, :, :]
Negated(m) == MatNeg(m)

MatEq(m, n) == \A r \in 1..3 : \A c \in 1..3 : REq(m[r][c], n[r][c])

\* np.linalg.det
Det(m) ==
  LET minor(r1, c1, r2, c2) ==
        RSub(RMul(At(m, r1, c1), At(m, r2, c2)), RMul(At(m, r1, c2), At(m, r2, c1)))
  IN RAdd(RSub(RMul(At(m, 0, 0), minor(1, 1, 2, 2)),
               RMul(At(m, 0, 1), minor(1, 0, 2, 2))),
          RMul(At(m, 0, 2), minor(1, 0, 2, 1)))

\* The determinant test of the 'improper' loop: 1 (proper), -1 (improper,
\* the matrix is negated) or 0 (the exception is raised).
DetParity(m) ==
  LET det1 == Det(m) IN
  IF RLt(RAbs(RSub(det1, RInt(1))), epsilon) THEN 1
  ELSE IF RLt(RAbs(RAdd(det1, RInt(1))), epsilon) THEN -1
  ELSE 0

\* mat[:, 0, 0] + mat[:, 1, 1] + mat[:, 2, 2], for one matrix
Trace(m) == RAdd(RAdd(At(m, 0, 0), At(m, 1, 1)), At(m, 2, 2))

\* the predicates of the three np.where calls
InInd1(t) == RLe(RAbs(RSub(t, RInt(3))), epsilon)

InInd2(t) == RLe(RAbs(RAdd(t, RInt(1))), epsilon)

InInd3Loose(t) ==
  ~RLt(RAbs(RAdd(t, RInt(1))), epsilon) /\ ~RLt(RAbs(RSub(t, RInt(3))), epsilon)

InInd3(t) ==
  RGt(RAbs(RAdd(t, RInt(1))), epsilon) /\ RGt(RAbs(RSub(t, RInt(3))), epsilon)

\* np.where(...)[0]: the indices of S in ascending order
RECURSIVE Ascending(_)
Ascending(S) ==
  IF S = {} THEN <<>>
  ELSE LET lo == CHOOSE x \in S : \A y \in S : x <= y
       IN <<lo>> \o Ascending(S \ {lo})

\* ------------------------------------------------------------------------
\* The half-turn case, for one matrix of ind2.

ZeroRoot == Root(0, RInt(0))

AngleZero == [acos |-> RInt(1)]

AnglePi == [acos |-> RInt(-1)]

\* np.arccos
ArcCos(c) == [acos |-> c]

AngleEq(p, q) == REq(p.acos, q.acos)

diag_elems(m) == <<At(m, 0, 0), At(m, 1, 1), At(m, 2, 2)>>

\* sqrt(max((diag + 1)/2, 0)), with the elements <= epsilon set to zero
UnsignedAxis(m) ==
  LET a(k) == Sqrt(RMax(RMul(RAdd(diag_elems(m)[k], RInt(1)), Rat(<<1>>, <<2>>)),
                        RInt(0)))
      e(k) == IF RootGt(a(k), epsilon) THEN a(k) ELSE ZeroRoot
  IN <<e(1), e(2), e(3)>>

m_upperReordered(m) == <<At(m, 0, 1), At(m, 0, 2), At(m, 1, 2)>>

\* [M23 M13 M12]
m_upper(m) == <<At(m, 1, 2), At(m, 0, 2), At(m, 0, 1)>>

\* np.sign(m_upper)*((abs(m_upper) > epsilon).astype(int))
SignsOf(mu) ==
  LET e(k) == RSign(mu[k]) * (IF RGt(RAbs(mu[k]), epsilon) THEN 1 ELSE 0)
  IN <<e(1), e(2), e(3)>>

sum_signs(s) == s[1] + s[2] + s[3]

\* t1: 1 where sum_signs >= 0, else 2 where no sign is zero, else 0
t1(s) ==
  IF sum_signs(s) >= 0 THEN 1
  ELSE IF ~(\E k \in 1..3 : s[k] = 0) THEN 2
  ELSE 0

shiftedLeft(t2) == <<t2[2], t2[3], t2[1]>>

\* np.column_stack((t2[:, 2], t2[:, 0], t2[:, 1]))
shifted(t2) == <<t2[3], t2[1], t2[2]>>

FlipOf(s) ==
  IF t1(s) = 1 THEN <<1, 1, 1>>
  ELSE IF t1(s) = 2 THEN <<-s[1], -s[2], -s[3]>>
  ELSE LET e(k) == shifted(s)[k] + (IF shifted(s)[k] = 0 THEN 1 ELSE 0)
       IN <<e(1), e(2), e(3)>>

\* axis*flip
SignedAxis(axis, f) ==
  <<RootTimesSign(axis[1], f[1]), RootTimesSign(axis[2], f[2]),
    RootTimesSign(axis[3], f[3])>>

\* ------------------------------------------------------------------------
\* The generic case, for one matrix of ind3.

phi(t) == ArcCos(RMul(RSub(t, RInt(1)), Rat(<<1>>, <<2>>)))

\* den = 2*sin(phi) = sqrt(4 - 4*cos(phi)^2), phi in [0, pi]
den(t) ==
  Sqrt(RSub(RInt(4), RMul(RInt(4), RMul(phi(t).acos, phi(t).acos))))

RootDiv(u, v) == Root(u.s * v.s, RDiv(u.q, v.q))

GenericAxis(m, t) ==
  <<RootDiv(RootOf(RSub(At(m, 2, 1), At(m, 1, 2))), den(t)),
    RootDiv(RootOf(RSub(At(m, 0, 2), At(m, 2, 0))), den(t)),
    RootDiv(RootOf(RSub(At(m, 1, 0), At(m, 0, 1))), den(t))>>

\* ------------------------------------------------------------------------
\* vrrotvec2mat, for one column (axis, angle, parity).  An entry of mtx is
\* the sum of two signed roots: main (the tc*x*y or tc*x*x + c term) and
\* sine (the s*z term), and the sine part is zero at the angles 0 and pi.

RootMul(u, v) == Root(u.s * v.s, RMul(u.q, v.q))

\* d /= np.linalg.norm(d, axis=0)
Normalized(axis) ==
  LET norm == Sqrt(RAdd(RAdd(axis[1].q, axis[2].q), axis[3].q))
  IN <<RootDiv(axis[1], norm), RootDiv(axis[2], norm), RootDiv(axis[3], norm)>>

vrrotvec2mat(col) ==
  LET d  == Normalized(col.axis)
      c  == col.angle.acos
      s  == Sqrt(RSub(RInt(1), RMul(c, c)))
      tc == RSub(RInt(1), c)
      \* tc*d[j]*d[k]
      tcdd(j, k) == RootMul(RootOf(tc), RootMul(d[j], d[k]))
      \* tc*d[k]*d[k] + c
      onDiag(k)  == RootOf(RAdd(RMul(tc, d[k].q), c))
      sd(k)      == RootMul(s, d[k])
      entry(u, v) == IF col.parity = -1
                     THEN [main |-> RootNeg(u), sine |-> RootNeg(v)]
                     ELSE [main |-> u, sine |-> v]
  IN << <<entry(onDiag(1), ZeroRoot), entry(tcdd(1, 2), RootNeg(sd(3))),
          entry(tcdd(1, 3), sd(2))>>,
        <<entry(tcdd(1, 2), sd(3)), entry(onDiag(2), ZeroRoot),
          entry(tcdd(2, 3), RootNeg(sd(1)))>>,
        <<entry(tcdd(1, 3), RootNeg(sd(2))), entry(tcdd(2, 3), sd(1)),
          entry(onDiag(3), ZeroRoot)>> >>

\* ------------------------------------------------------------------------
\* The matrices the calls are made with.

MaxBatch == 2

IntMat(rows) ==
  LET row(r) == <<RInt(rows[r][1]), RInt(rows[r][2]), RInt(rows[r][3])>>
  IN <<row(1), row(2), row(3)>>

\* the matrix of numerators nums over the common denominator d
MatOver(nums, d) ==
  LET row(r) == <<Rat(nums[r][1], d), Rat(nums[r][2], d), Rat(nums[r][3], d)>>
  IN <<row(1), row(2), row(3)>>

\* A unit axis n/h: three Bigs over the Big h, with n.n = h^2.
Axis(n, h) == [n |-> n, h |-> h]

AxisSigned(a, sv) ==
  LET e(k) == IF sv[k] < 0 THEN BNeg(a.n[k]) ELSE a.n[k]
  IN Axis(<<e(1), e(2), e(3)>>, a.h)

\* R = 2*a*a^T - I, the rotation by pi about a
HalfTurnMat(a) ==
  LET hh == BMul(a.h, a.h)
      e(r, c) == BSub(BMul(<<2>>, BMul(a.n[r], a.n[c])), IF r = c THEN hh ELSE <<0>>)
      row(r) == <<e(r, 1), e(r, 2), e(r, 3)>>
  IN MatOver(<<row(1), row(2), row(3)>>, hh)

\* (2m, 2m, 2m^2 - 1)/(2m^2 + 1) with m = 2e6: two components of about
\* 5e-7, twice whose product is about 5e-13, below epsilon
SmallAxis == Axis(<<(<<0, 400>>), (<<0, 400>>), (<<-1, 0, 0, 8>>)>>, <<1, 0, 0, 8>>)

BaseAxes ==
  { Axis(<<(<<1>>), (<<0>>), (<<0>>)>>, <<1>>),
    Axis(<<(<<0>>), (<<1>>), (<<0>>)>>, <<1>>),
    Axis(<<(<<0>>), (<<0>>), (<<1>>)>>, <<1>>),
    Axis(<<(<<3>>), (<<4>>), (<<0>>)>>, <<5>>),
    Axis(<<(<<0>>), (<<3>>), (<<4>>)>>, <<5>>),
    Axis(<<(<<4>>), (<<0>>), (<<3>>)>>, <<5>>),
    Axis(<<(<<1>>), (<<2>>), (<<2>>)>>, <<3>>),
    SmallAxis }

SignVecs == {<<x, y, z>> : x \in {-1, 1}, y \in {-1, 1}, z \in {-1, 1}}

\* every combination of positive, negative and zero components
Axes == {AxisSigned(a, sv) : a \in BaseAxes, sv \in SignVecs}

HalfTurns == {HalfTurnMat(a) : a \in Axes}

Indicators == {<<x, y, z>> : x \in {-1, 0, 1}, y \in {-1, 0, 1}, z \in {-1, 0, 1}}

\* a symmetric matrix of trace -1 whose entries above the diagonal have the
\* signs s (a rotation only for some s; 'proper' mode does not look)
SymmetricMat(s) ==
  IntMat(<<(<<1, s[3], s[2]>>), (<<s[3], -1, s[1]>>), (<<s[2], s[1], -1>>)>>)

Identity == IntMat(<<(<<1, 0, 0>>), (<<0, 1, 0>>), (<<0, 0, 1>>)>>)

QuarterTurn == IntMat(<<(<<0, -1, 0>>), (<<1, 0, 0>>), (<<0, 0, 1>>)>>)

ThirdTurn == IntMat(<<(<<0, 0, 1>>), (<<1, 0, 0>>), (<<0, 1, 0>>)>>)

\* the rotation about z with cosine 3/5 and sine 4/5
RationalTurn ==
  MatOver(<<(<<(<<3>>), (<<-4>>), (<<0>>)>>),
            (<<(<<4>>), (<<3>>), (<<0>>)>>),
            (<<(<<0>>), (<<0>>), (<<5>>)>>)>>, <<5>>)

\* diag(x, y, 1 + k*epsilon): a trace k*epsilon away from x + y + 1
NearDiag(x, y, k) ==
  MatOver(<<(<<(<<0, 0, 0, x>>), (<<0>>), (<<0>>)>>),
            (<<(<<0>>), (<<0, 0, 0, y>>), (<<0>>)>>),
            (<<(<<0>>), (<<0>>), (<<k, 0, 0, 1>>)>>)>>, <<0, 0, 0, 1>>)

Boundaries ==
  {NearDiag(1, 1, -1), NearDiag(1, 1, -2), NearDiag(-1, -1, 1), NearDiag(-1, -1, 2)}

Singular == IntMat(<<(<<1, 0, 0>>), (<<0, 1, 0>>), (<<0, 0, 0>>)>>)

Stretched == IntMat(<<(<<-1, 0, 0>>), (<<0, -1, 0>>), (<<0, 0, 2>>)>>)

Rotations == {Identity, QuarterTurn, ThirdTurn, RationalTurn} \cup HalfTurns

Others == {SymmetricMat(s) : s \in Indicators} \cup Boundaries \cup {Singular, Stretched}

Matrices == Rotations \cup {MatNeg(m) : m \in Rotations} \cup Others

BatchMatrices ==
  {Identity, MatNeg(QuarterTurn),
   HalfTurnMat(Axis(<<(<<1>>), (<<-2>>), (<<2>>)>>, <<3>>)),
   MatNeg(HalfTurnMat(Axis(<<(<<1>>), (<<-2>>), (<<2>>)>>, <<3>>))),
   Singular}

\* one matrix of any kind, a rotation followed by its negative, or up to
\* MaxBatch of the batch matrices
Batches ==
  {<<m>> : m \in Matrices} \cup
  {<<m, MatNeg(m)>> : m \in Rotations} \cup
  UNION {[1..n -> BatchMatrices] : n \in 2..MaxBatch}

\* ------------------------------------------------------------------------
\* unique_rows_tol.  An element of data is a decimal with DataDigits digits
\* after the point, kept as the integer n for n/10^DataDigits.  A tolerance
\* is m*10^e, kept as [m |-> m, e |-> e] with m in 1..9.

MaxRows == 3

MaxTolDigits == 2

DataDigits == MaxTolDigits + 1

One == 10^DataDigits

Half == One \div 2

Tolerances == [m : {1, 5}, e : (-MaxTolDigits)..1]

\* np.log10(tol) = e + log10(m), in [e, e + 1): its floor, and whether it
\* is that integer exactly
log10(t) == [floor |-> t.e, exact |-> t.m = 1]

\* np.fix: towards zero
np_fix(x) == IF x.exact \/ x.floor >= 0 THEN x.floor ELSE x.floor + 1

precFloor(t) == -log10(t).floor

\* prec = -np.fix(np.log10(tol))
precOf(t) == -np_fix(log10(t))

\* np.fix(data * 10 ** prec) / 10 ** prec, the sign kept apart so that
\* -0.0 shows: the value is (-1)^neg * mag / 10^DataDigits
FixScaled(n, p) ==
  LET num   == Abs(n) * 10^MaxOf(p, 0)
      dnm   == 10^(DataDigits + MaxOf(-p, 0))
      q     == num \div dnm
  IN [neg |-> n < 0, mag |-> q * 10^(DataDigits - p)]

\* x + 0.0: -0.0 becomes 0.0
AddZero(x) == IF x.mag = 0 THEN [neg |-> FALSE, mag |-> 0] ELSE x

\* one element of d_r
Truncated(n, p) == AddZero(FixScaled(n, p))

TruncatedRow(row, p) ==
  Eager([c \in 1..Len(row) |-> Truncated(row[c], p)], 1, Len(row))

\* The eight bytes of the float64 x, least significant first (the view of
\* d_r as np.void on a little-endian machine).  x is zero or a multiple of
\* 1/2 below 16 in magnitude: the six low bytes of the mantissa are zero; a
\* value outside that range has no encoding here.
RECURSIVE Log2(_)
Log2(h) == IF h < 2 THEN 0 ELSE 1 + Log2(h \div 2)

Float64Bytes(x) ==
  LET sign == IF x.neg THEN 128 ELSE 0 IN
  IF x.mag = 0 THEN <<0, 0, 0, 0, 0, 0, 0, sign>>
  ELSE IF (2 * x.mag) % One # 0 \/ 2 * x.mag >= 32 * One
       THEN CHOOSE unencoded \in {} : TRUE
       ELSE LET h      == (2 * x.mag) \div One
                j      == Log2(h)
                biased == (j - 1) + 1023
                top4   == ((h - 2^j) * 16) \div 2^j
            IN <<0, 0, 0, 0, 0, 0, (biased % 16) * 16 + top4, sign + biased \div 16>>

RECURSIVE Flatten(_)
Flatten(ss) == IF ss = <<>> THEN <<>> ELSE Head(ss) \o Flatten(Tail(ss))

\* a row of d_r viewed as one np.void item
VoidOf(trow) ==
  Flatten(Eager([c \in 1..Len(trow) |-> Float64Bytes(trow[c])], 1, Len(trow)))

\* the order np.unique sorts np.void items in: unsigned bytes, first to last
RECURSIVE BytesLess(_, _)
BytesLess(a, b) ==
  IF a = <<>> \/ b = <<>> THEN FALSE
  ELSE IF Head(a) # Head(b) THEN Head(a) < Head(b)
  ELSE BytesLess(Tail(a), Tail(b))

BytesGreater(a, b) == BytesLess(b, a)

VoidLess(a, b) == BytesLess(a, b)

RECURSIVE Sorted(_)
Sorted(S) ==
  IF S = {} THEN <<>>
  ELSE LET lo == CHOOSE x \in S : \A y \in S \ {x} : VoidLess(x, y)
       IN <<lo>> \o Sorted(S \ {lo})

\* np.unique(b): the distinct items, sorted
np_unique(b) == Sorted({b[r] : r \in 1..Len(b)})

LastIndex(b, u) ==
  Eager([k \in 1..Len(u) |-> (CHOOSE r \in 1..Len(b) :
           b[r] = u[k] /\ \A q \in 1..Len(b) : b[q] = u[k] => q <= r) - 1],
        1, Len(u))

\* return_index: for each unique item, the index of its first occurrence
FirstIndex(b, u) ==
  Eager([k \in 1..Len(u) |-> (CHOOSE r \in 1..Len(b) :
           b[r] = u[k] /\ \A q \in 1..Len(b) : b[q] = u[k] => r <= q) - 1],
        1, Len(u))

\* return_inverse: for each item, the index of its unique item
InverseIndex(b, u) ==
  Eager([r \in 1..Len(b) |-> (CHOOSE k \in 1..Len(u) : u[k] = b[r]) - 1], 1, Len(b))

TakeFirstRows(d, idx) == Eager([k \in 1..Len(idx) |-> d[k]], 1, Len(idx))

\* data[ia, :]
TakeRows(d, idx) == Eager([k \in 1..Len(idx) |-> d[idx[k] + 1]], 1, Len(idx))

DataRows ==
  {<<-1, 0>>, <<0, 0>>, <<0, Half>>, <<Half + 1, 0>>, <<Half + 1, Half>>, <<One, 0>>}

Arrays == UNION {[1..n -> DataRows] : n \in 1..MaxRows}

\* ------------------------------------------------------------------------
\* The state: one call of vrrotmat2vec or of unique_rows_tol (fn), at the
\* statement pc.

VARIABLES
  fn, pc, outcome,
  \* vrrotmat2vec
  mat1, rot_type, mat, ax_ang, i, mtrc, ind1, ind2, ind3, signs, flip,
  \* unique_rows_tol
  data, tol, prec, d_r, ia, ic, ret_arr, call, first_ret

vars == <<fn, pc, outcome, mat1, rot_type, mat, ax_ang, i, mtrc, ind1, ind2, ind3,
          signs, flip, data, tol, prec, d_r, ia, ic, ret_arr, call, first_ret>>

rotVars == <<mat1, rot_type, mat, ax_ang, i, mtrc, ind1, ind2, ind3, signs, flip>>

uniqVars == <<data, tol, prec, d_r, ia, ic, ret_arr, call, first_ret>>

msz == Len(mat)

\* one column of np.zeros((5, msz))
ZeroColumn == [axis |-> <<ZeroRoot, ZeroRoot, ZeroRoot>>, angle |-> AngleZero, parity |-> 0]

CopyKeepsStorage == TRUE

\* whether mat, made by np.copy(mat1), shares its storage with mat1
SharesStorage == FALSE

InitRot ==
  /\ fn = "vrrotmat2vec"
  /\ mat1 \in Batches
  /\ rot_type \in {"proper", "improper"}
  /\ mat = mat1
  /\ ax_ang = Eager([k \in 1..Len(mat1) |-> ZeroColumn], 1, Len(mat1))
  /\ i = 0
  /\ mtrc = <<>> /\ ind1 = <<>> /\ ind2 = <<>> /\ ind3 = <<>>
  /\ signs = <<>> /\ flip = <<>>
  /\ data = <<>> /\ tol = [m |-> 1, e |-> 0] /\ prec = 0 /\ d_r = <<>>
  /\ ia = <<>> /\ ic = <<>> /\ ret_arr = <<>> /\ call = 0 /\ first_ret = <<>>

InitUniq ==
  /\ fn = "unique_rows_tol"
  /\ data \in Arrays
  /\ tol \in Tolerances
  /\ prec = 0 /\ d_r = <<>> /\ ia = <<>> /\ ic = <<>> /\ ret_arr = <<>>
  /\ call = 1 /\ first_ret = <<>>
  /\ mat1 = <<>> /\ rot_type = "proper" /\ mat = <<>> /\ ax_ang = <<>> /\ i = 0
  /\ mtrc = <<>> /\ ind1 = <<>> /\ ind2 = <<>> /\ ind3 = <<>>
  /\ signs = <<>> /\ flip = <<>>

Init ==
  /\ pc = "start"
  /\ outcome = "running"
  /\ (InitRot \/ InitUniq)

\* ---- vrrotmat2vec

\* rot_type == 'proper': every parity is 1, no determinant is looked at
ParityProper ==
  /\ fn = "vrrotmat2vec" /\ pc = "start" /\ rot_type = "proper"
  /\ ax_ang' = Eager([k \in 1..msz |-> [ax_ang[k] EXCEPT !.parity = 1]], 1, msz)
  /\ pc' = "trace"
  /\ UNCHANGED <<fn, outcome, mat1, rot_type, mat, i, mtrc, ind1, ind2, ind3, signs, flip>>
  /\ UNCHANGED uniqVars

\* one turn of the loop over range(msz): det within epsilon of 1
DetProper ==
  /\ fn = "vrrotmat2vec" /\ pc = "start" /\ rot_type = "improper"
  /\ i < msz
  /\ DetParity(mat[i + 1]) = 1
  /\ ax_ang' = [ax_ang EXCEPT ![i + 1].parity = 1]
  /\ i' = i + 1
  /\ UNCHANGED <<fn, pc, outcome, mat1, rot_type, mat, mtrc, ind1, ind2, ind3, signs, flip>>
  /\ UNCHANGED uniqVars

\* det within epsilon of -1: parity -1, and the matrix is negated in place
DetImproper ==
  /\ fn = "vrrotmat2vec" /\ pc = "start" /\ rot_type = "improper"
  /\ i < msz
  /\ DetParity(mat[i + 1]) = -1
  /\ ax_ang' = [ax_ang EXCEPT ![i + 1].parity = -1]
  /\ mat' = [mat EXCEPT ![i + 1] = Negated(mat[i + 1])]
  /\ mat1' = IF SharesStorage THEN mat' ELSE mat1
  /\ i' = i + 1
  /\ UNCHANGED <<fn, pc, outcome, rot_type, mtrc, ind1, ind2, ind3, signs, flip>>
  /\ UNCHANGED uniqVars

\* neither: raise Exception('Matrix is not a rotation: |det| != 1')
DetRaise ==
  /\ fn = "vrrotmat2vec" /\ pc = "start" /\ rot_type = "improper"
  /\ i < msz
  /\ DetParity(mat[i + 1]) = 0
  /\ outcome' = "raised"
  /\ pc' = "done"
  /\ UNCHANGED <<fn, i>>
  /\ UNCHANGED <<mat1, rot_type, mat, ax_ang, mtrc, ind1, ind2, ind3, signs, flip>>
  /\ UNCHANGED uniqVars

DetLoopEnd ==
  /\ fn = "vrrotmat2vec" /\ pc = "start" /\ rot_type = "improper"
  /\ i = msz
  /\ pc' = "trace"
  /\ UNCHANGED <<fn, outcome>> /\ UNCHANGED rotVars /\ UNCHANGED uniqVars

TraceStep ==
  /\ fn = "vrrotmat2vec" /\ pc = "trace"
  /\ mtrc' = Eager([k \in 1..msz |-> Trace(mat[k])], 1, msz)
  /\ pc' = "identity"
  /\ UNCHANGED <<fn, outcome, mat1, rot_type, mat, ax_ang, i, ind1, ind2, ind3, signs, flip>>
  /\ UNCHANGED uniqVars

\* the columns idx (ascending, 0-based) of ax_ang[:4, :] set to cols, in order
Scatter(aa, idx, cols) ==
  Eager([k \in 1..Len(aa) |->
           IF \E p \in 1..Len(idx) : idx[p] = k - 1
           THEN LET p == CHOOSE p \in 1..Len(idx) : idx[p] = k - 1
                IN [axis |-> cols[p].axis, angle |-> cols[p].angle,
                    parity |-> aa[k].parity]
           ELSE aa[k]],
        1, Len(aa))

\* phi = 0: the axis is (0, 1, 0)
IdentityCase ==
  /\ fn = "vrrotmat2vec" /\ pc = "identity"
  /\ ind1' = Ascending({k \in 0..(msz - 1) : InInd1(mtrc[k + 1])})
  /\ ax_ang' = Scatter(ax_ang, ind1',
                 Eager([p \in 1..Len(ind1') |->
                          [axis |-> <<ZeroRoot, Sqrt(RInt(1)), ZeroRoot>>,
                           angle |-> AngleZero]],
                       1, Len(ind1')))
  /\ pc' = "halfturn"
  /\ UNCHANGED <<fn, outcome, mat1, rot_type, mat, i, mtrc, ind2, ind3, signs, flip>>
  /\ UNCHANGED uniqVars

\* phi = pi
HalfTurnCase ==
  /\ fn = "vrrotmat2vec" /\ pc = "halfturn"
  /\ ind2' = Ascending({k \in 0..(msz - 1) : InInd2(mtrc[k + 1])})
  /\ signs' = Eager([p \in 1..Len(ind2') |-> SignsOf(m_upper(mat[ind2'[p] + 1]))],
                    1, Len(ind2'))
  /\ flip' = Eager([p \in 1..Len(ind2') |-> FlipOf(signs'[p])], 1, Len(ind2'))
  /\ ax_ang' = Scatter(ax_ang, ind2',
                 Eager([p \in 1..Len(ind2') |->
                          [axis |-> SignedAxis(UnsignedAxis(mat[ind2'[p] + 1]), flip'[p]),
                           angle |-> AnglePi]],
                       1, Len(ind2')))
  /\ pc' = "generic"
  /\ UNCHANGED <<fn, outcome, mat1, rot_type, mat, i, mtrc, ind1, ind3>>
  /\ UNCHANGED uniqVars

GenericCase ==
  /\ fn = "vrrotmat2vec" /\ pc = "generic"
  /\ ind3' = Ascending({k \in 0..(msz - 1) : InInd3(mtrc[k + 1])})
  /\ ax_ang' = Scatter(ax_ang, ind3',
                 Eager([p \in 1..Len(ind3') |->
                          [axis |-> GenericAxis(mat[ind3'[p] + 1], mtrc[ind3'[p] + 1]),
                           angle |-> phi(mtrc[ind3'[p] + 1])]],
                       1, Len(ind3')))
  /\ pc' = "return"
  /\ UNCHANGED <<fn, outcome, mat1, rot_type, mat, i, mtrc, ind1, ind2, signs, flip>>
  /\ UNCHANGED uniqVars

ReturnAxAng ==
  /\ fn = "vrrotmat2vec" /\ pc = "return"
  /\ outcome' = "returned"
  /\ pc' = "done"
  /\ UNCHANGED fn /\ UNCHANGED rotVars /\ UNCHANGED uniqVars

\* ---- unique_rows_tol

\* the np.void view of d_r
b == Eager([r \in 1..Len(d_r) |-> VoidOf(d_r[r])], 1, Len(d_r))

Truncate ==
  /\ fn = "unique_rows_tol" /\ pc = "start"
  /\ prec' = precOf(tol)
  /\ d_r' = Eager([r \in 1..Len(data) |-> TruncatedRow(data[r], prec')], 1, Len(data))
  /\ pc' = "unique"
  /\ UNCHANGED <<fn, outcome, data, tol, ia, ic, ret_arr, call, first_ret>>
  /\ UNCHANGED rotVars

Unique ==
  /\ fn = "unique_rows_tol" /\ pc = "unique"
  /\ ia' = FirstIndex(b, np_unique(b))
  /\ ic' = InverseIndex(b, np_unique(b))
  /\ pc' = "return"
  /\ UNCHANGED <<fn, outcome, data, tol, prec, d_r, ret_arr, call, first_ret>>
  /\ UNCHANGED rotVars

ReturnRows ==
  /\ fn = "unique_rows_tol" /\ pc = "return"
  /\ ret_arr' = TakeRows(data, ia)
  /\ outcome' = "returned"
  /\ pc' = "done"
  /\ UNCHANGED <<fn, data, tol, prec, d_r, ia, ic, call, first_ret>>
  /\ UNCHANGED rotVars

\* the caller applies unique_rows_tol to its own result, with the same tol
CallAgain ==
  /\ fn = "unique_rows_tol" /\ pc = "done" /\ call = 1
  /\ first_ret' = ret_arr
  /\ data' = ret_arr
  /\ call' = 2
  /\ prec' = 0 /\ d_r' = <<>> /\ ia' = <<>> /\ ic' = <<>> /\ ret_arr' = <<>>
  /\ outcome' = "running"
  /\ pc' = "start"
  /\ UNCHANGED <<fn, tol>>
  /\ UNCHANGED rotVars

Next ==
  \/ ParityProper \/ DetProper \/ DetImproper \/ DetRaise \/ DetLoopEnd
  \/ TraceStep \/ IdentityCase \/ HalfTurnCase \/ GenericCase \/ ReturnAxAng
  \/ Truncate \/ Unique \/ ReturnRows \/ CallAgain

Spec == Init /\ [][Next]_vars

\* ------------------------------------------------------------------------
\* Properties.

Range(f) == {f[k] : k \in 1..Len(f)}

RotReturned == fn = "vrrotmat2vec" /\ outcome = "returned"

UniqReturned == fn = "unique_rows_tol" /\ outcome = "returned"

\* |x| > epsilon, |x| <= epsilon
Exceeds(x) == RCmp(RAbs(x), epsilon) > 0

Within(x) == RCmp(RAbs(x), epsilon) <= 0

\* R * R^T = I and det R = 1
IsProperRotation(m) ==
  /\ \A r \in 1..3 : \A c \in 1..3 :
       REq(RAdd(RAdd(RMul(m[r][1], m[c][1]), RMul(m[r][2], m[c][2])),
                RMul(m[r][3], m[c][3])),
           RInt(IF r = c THEN 1 ELSE 0))
  /\ REq(Det(m), RInt(1))

AxisEq(u, v) == \A k \in 1..3 : RootEq(u[k], v[k])

\* C1: once the three index sets are computed, every row index is in
\* exactly one of ind1 (|t - 3| <= epsilon), ind2 (|t + 1| <= epsilon) and
\* ind3 (neither), t being the trace of the possibly negated matrix.
C1_CasesPartitionBatch ==
  (fn = "vrrotmat2vec" /\ pc \in {"return", "done"} /\ outcome # "raised") =>
    \A k \in 0..(msz - 1) :
      LET t == Trace(mat[k + 1]) IN
      /\ Cardinality({p \in 1..Len(ind1) : ind1[p] = k})
           + Cardinality({p \in 1..Len(ind2) : ind2[p] = k})
           + Cardinality({p \in 1..Len(ind3) : ind3[p] = k}) = 1
      /\ (k \in Range(ind1)) = Within(RSub(t, RInt(3)))
      /\ (k \in Range(ind2)) = Within(RAdd(t, RInt(1)))
      /\ (k \in Range(ind3)) = (Exceeds(RSub(t, RInt(3))) /\ Exceeds(RAdd(t, RInt(1))))

\* a batch whose rows fall in two cases, one of them on the boundary of its case
C1_Witness ==
  /\ RotReturned
  /\ msz = 2 /\ Len(ind2) = 1 /\ Len(ind3) = 1

\* C2: the sign pattern of the half-turn case is (1, 1, 1) when the sum of
\* the indicators is >= 0, else the negated indicators when none is zero, else
\* the indicators shifted right by one with zero replaced by 1; it never
\* holds a zero.  For every indicator vector, and for every row of ind2.
C2_Pattern(s) ==
  IF s[1] + s[2] + s[3] >= 0 THEN <<1, 1, 1>>
  ELSE IF s[1] # 0 /\ s[2] # 0 /\ s[3] # 0 THEN <<-s[1], -s[2], -s[3]>>
  ELSE <<IF s[3] = 0 THEN 1 ELSE s[3],
         IF s[1] = 0 THEN 1 ELSE s[1],
         IF s[2] = 0 THEN 1 ELSE s[2]>>

C2_SignPattern ==
  /\ \A s \in Indicators :
       FlipOf(s) = C2_Pattern(s) /\ \A k \in 1..3 : FlipOf(s)[k] \in {-1, 1}
  /\ (fn = "vrrotmat2vec" /\ pc \in {"generic", "return", "done"}) =>
       \A p \in 1..Len(ind2) :
         /\ signs[p] \in Indicators
         /\ flip[p] = C2_Pattern(signs[p])
         /\ \A k \in 1..3 : flip[p][k] \in {-1, 1}

\* a row of the third branch: negative sum with a zero indicator
C2_Witness ==
  /\ RotReturned
  /\ \E p \in 1..Len(ind2) :
       /\ signs[p][1] + signs[p][2] + signs[p][3] < 0
       /\ \E k \in 1..3 : signs[p][k] = 0
       /\ flip[p] # <<1, 1, 1>>

\* C3: for R = 2*a*a^T - I, a a unit axis, 'proper' mode returns the angle
\* pi and the axis a or -a, and vrrotvec2mat of the result is R.
C3_HalfTurnRoundTrip ==
  (RotReturned /\ rot_type = "proper") =>
    \A k \in 1..msz : \A a \in Axes :
      MatEq(mat1[k], HalfTurnMat(a)) =>
        LET rt(j) == Root(BSign(a.n[j]), Rat(BMul(a.n[j], a.n[j]), BMul(a.h, a.h)))
            ra == <<rt(1), rt(2), rt(3)>>
            back == vrrotvec2mat(ax_ang[k])
        IN /\ AngleEq(ax_ang[k].angle, AnglePi)
           /\ (AxisEq(ax_ang[k].axis, ra) \/
               AxisEq(ax_ang[k].axis, <<RootNeg(ra[1]), RootNeg(ra[2]), RootNeg(ra[3])>>))
           /\ \A r \in 1..3 : \A c \in 1..3 :
                /\ back[r][c].sine.s = 0
                /\ RootEq(back[r][c].main, RootOf(mat1[k][r][c]))

\* the same, for the axes whose non-zero products 2*a_j*a_k exceed epsilon
C3_LargeProducts ==
  (RotReturned /\ rot_type = "proper") =>
    \A k \in 1..msz : \A a \in Axes :
      (MatEq(mat1[k], HalfTurnMat(a)) /\
       \A r \in 1..3 : \A c \in 1..3 :
         RSign(mat1[k][r][c]) # 0 => Exceeds(mat1[k][r][c])) =>
        LET rt(j) == Root(BSign(a.n[j]), Rat(BMul(a.n[j], a.n[j]), BMul(a.h, a.h)))
            ra == <<rt(1), rt(2), rt(3)>>
            back == vrrotvec2mat(ax_ang[k])
        IN /\ AngleEq(ax_ang[k].angle, AnglePi)
           /\ (AxisEq(ax_ang[k].axis, ra) \/
               AxisEq(ax_ang[k].axis, <<RootNeg(ra[1]), RootNeg(ra[2]), RootNeg(ra[3])>>))
           /\ \A r \in 1..3 : \A c \in 1..3 :
                /\ back[r][c].sine.s = 0
                /\ RootEq(back[r][c].main, RootOf(mat1[k][r][c]))

\* the sign of x when |x| > epsilon, else zero
Indicator(x) == IF Exceeds(x) THEN RSign(x) ELSE 0

AfterHalfTurn == fn = "vrrotmat2vec" /\ pc \in {"generic", "return", "done"}

\* C4, as claimed: the indicators of a half-turn row are those of the
\* differences (m21 - m12, m02 - m20, m01 - m10).
C4_SignsFromDifferences ==
  AfterHalfTurn =>
    \A p \in 1..Len(ind2) :
      LET m == mat[ind2[p] + 1] IN
      signs[p] = <<Indicator(RSub(At(m, 2, 1), At(m, 1, 2))),
                   Indicator(RSub(At(m, 0, 2), At(m, 2, 0))),
                   Indicator(RSub(At(m, 0, 1), At(m, 1, 0)))>>

\* C4, amended: the indicators of a half-turn row are those of the entries
\* above the diagonal (m12, m02, m01), in that order: the sign of the entry
\* when its magnitude exceeds epsilon, else exactly zero.
C4_SignsFromUpperEntries ==
  AfterHalfTurn =>
    \A p \in 1..Len(ind2) :
      LET m == mat[ind2[p] + 1] IN
      signs[p] = <<Indicator(At(m, 1, 2)), Indicator(At(m, 0, 2)), Indicator(At(m, 0, 1))>>

\* a half-turn row with three different entries above the diagonal: one
\* positive, one negative, and one non-zero but within epsilon
C4_Witness ==
  /\ RotReturned
  /\ \E p \in 1..Len(ind2) :
       /\ signs[p] = <<-1, 1, 0>>
       /\ RSign(At(mat[ind2[p] + 1], 0, 1)) # 0

\* |det - 1| > epsilon and |det + 1| > epsilon
NotARotation(m) ==
  Exceeds(RSub(Det(m), RInt(1))) /\ Exceeds(RAdd(Det(m), RInt(1)))

\* C5: in 'improper' mode a batch holding a matrix whose determinant is
\* within epsilon of neither 1 nor -1 raises, before any of the three cases
\* is entered and never returning; and no step of the call changes the
\* caller's batch mat1.
C5_BadDeterminantRaises ==
  /\ []((fn = "vrrotmat2vec" /\ rot_type = "improper"
           /\ \E k \in 1..Len(mat1) : NotARotation(mat1[k])) =>
          /\ pc \in {"start", "done"}
          /\ outcome # "returned"
          /\ (pc = "done" => outcome = "raised"))
  /\ [][mat1' = mat1]_vars

\* the bad matrix comes after a matrix of determinant -1, already negated
C5_Witness ==
  /\ fn = "vrrotmat2vec" /\ outcome = "raised"
  /\ i = 1
  /\ ax_ang[1].parity = -1
  /\ ~MatEq(mat[1], mat1[1])
  /\ NotARotation(mat1[2])

\* C6: in 'improper' mode a proper rotation R gets parity 1, and -R gets
\* parity -1 and, in a batch that also holds R, the axis and angle of R.
C6_NegatedRotation ==
  (RotReturned /\ rot_type = "improper") =>
    \A k \in 1..msz :
      /\ IsProperRotation(mat1[k]) => ax_ang[k].parity = 1
      /\ IsProperRotation(MatNeg(mat1[k])) =>
           /\ ax_ang[k].parity = -1
           /\ \A j \in 1..msz :
                MatEq(mat1[j], MatNeg(mat1[k])) =>
                  /\ AxisEq(ax_ang[k].axis, ax_ang[j].axis)
                  /\ AngleEq(ax_ang[k].angle, ax_ang[j].angle)

\* R, -R with R a half turn about an axis with a negative component
C6_Witness ==
  /\ RotReturned /\ rot_type = "improper"
  /\ msz = 2
  /\ IsProperRotation(mat1[1]) /\ MatEq(mat1[2], MatNeg(mat1[1]))
  /\ ind2 = <<0, 1>>
  /\ \E k \in 1..3 : ax_ang[2].axis[k].s = -1

\* ---- unique_rows_tol

\* the bytes of row r (0-based) of d_r
Key(r) == VoidOf(d_r[r + 1])

\* the smallest index whose truncated row is that of row r
FirstOf(r) == CHOOSE q \in 0..r : d_r[q + 1] = d_r[r + 1] /\
                \A x \in 0..r : d_r[x + 1] = d_r[r + 1] => q <= x

\* C7, as claimed: the rows come in the order of first appearance, ia is
\* strictly increasing.
C7_FirstAppearanceOrder ==
  UniqReturned => \A p \in 1..Len(ia) : \A q \in 1..Len(ia) : p < q => ia[p] < ia[q]

\* C7, amended: the rows come in the ascending order of the bytes of their
\* truncated rows (np.unique sorts), each taken at the first index where its
\* truncated row occurs; every truncated row of the input is among them.
C7_SortedOrder ==
  UniqReturned =>
    /\ \A p \in 1..Len(ia) : \A q \in 1..Len(ia) :
         p < q => BytesLess(Key(ia[p]), Key(ia[q]))
    /\ \A p \in 1..Len(ia) : ia[p] \in 0..(Len(data) - 1) /\ FirstOf(ia[p]) = ia[p]
    /\ \A r \in 0..(Len(data) - 1) : \E p \in 1..Len(ia) : d_r[ia[p] + 1] = d_r[r + 1]
    /\ Len(ret_arr) = Len(ia)
    /\ \A p \in 1..Len(ia) : ret_arr[p] = data[ia[p] + 1]

\* a result whose order is not that of first appearance
C7_Witness ==
  /\ UniqReturned
  /\ Len(ia) >= 2
  /\ ia[1] > ia[2]

\* C8: result[ic[r]] is data[ia[ic[r]]], truncates to the truncated row r,
\* and ia[ic[r]] is the first index whose truncated row is that of row r;
\* the truncated rows of the result are pairwise distinct.
C8_IndexConsistency ==
  UniqReturned =>
    /\ Len(ic) = Len(data)
    /\ \A r \in 0..(Len(data) - 1) :
         /\ ic[r + 1] \in 0..(Len(ret_arr) - 1)
         /\ ret_arr[ic[r + 1] + 1] = data[ia[ic[r + 1] + 1] + 1]
         /\ TruncatedRow(ret_arr[ic[r + 1] + 1], prec) = d_r[r + 1]
         /\ ia[ic[r + 1] + 1] = FirstOf(r)
    /\ \A p \in 1..Len(ret_arr) : \A q \in 1..Len(ret_arr) :
         p # q => TruncatedRow(ret_arr[p], prec) # TruncatedRow(ret_arr[q], prec)

\* two different rows that truncate to one, the second one of the input not
\* being the one returned
C8_Witness ==
  /\ UniqReturned /\ call = 1
  /\ \E r \in 1..Len(data) :
       /\ ia[ic[r] + 1] # r - 1
       /\ data[r] # data[ia[ic[r] + 1] + 1]
  /\ Len(ia) >= 2

\* C9: unique_rows_tol of a result of unique_rows_tol, with the same tol, is
\* that result: the same rows in the same order.
C9_Idempotent ==
  (UniqReturned /\ call = 2) => ret_arr = first_ret

\* the first call has dropped a row and reordered the others
C9_Witness ==
  /\ UniqReturned /\ call = 2
  /\ Len(first_ret) = 2
  /\ ia = <<0, 1>>
  /\ BytesLess(VoidOf(TruncatedRow(first_ret[1], prec)),
               VoidOf(TruncatedRow(first_ret[2], prec)))

AfterTruncate == fn = "unique_rows_tol" /\ pc \in {"unique", "return", "done"}

\* tol = m*10^e as a multiple of 10^-(MaxTolDigits + 1), and 10^f likewise
TolUnits(t) == t.m * 10^(t.e + MaxTolDigits + 1)

PowUnits(f) == 10^(f + MaxTolDigits + 1)

\* floor(log10(tol)): 10^f <= tol < 10^(f + 1)
FloorLog10(t) ==
  CHOOSE f \in (-MaxTolDigits - 1)..2 : PowUnits(f) <= TolUnits(t) /\ TolUnits(t) < 10 * PowUnits(f)

\* log10(tol) rounded towards zero
FixLog10(t) ==
  IF TolUnits(t) >= PowUnits(0) \/ TolUnits(t) = PowUnits(FloorLog10(t))
  THEN FloorLog10(t) ELSE FloorLog10(t) + 1

\* every element of d_r is the element of data cut towards zero to p digits
CutTo(p) ==
  /\ Len(d_r) = Len(data)
  /\ \A r \in 1..Len(data) : \A c \in 1..Len(data[r]) :
       LET step == 10^(DataDigits - p) IN
       /\ d_r[r][c].mag % step = 0
       /\ d_r[r][c].mag <= Abs(data[r][c])
       /\ Abs(data[r][c]) < d_r[r][c].mag + step
       /\ d_r[r][c].neg = (data[r][c] < 0 /\ d_r[r][c].mag # 0)

\* C10, as claimed: prec = -floor(log10(tol)) for every tol.
C10_PrecIsFloor ==
  AfterTruncate => prec = -FloorLog10(tol) /\ CutTo(-FloorLog10(tol))

\* C10, amended: prec = -fix(log10(tol)), log10(tol) rounded towards zero,
\* and every element is cut towards zero to prec digits.  That is
\* -floor(log10(tol)) when tol >= 1 or tol is a power of ten, and one less
\* otherwise.
C10_PrecIsFix ==
  AfterTruncate =>
    /\ prec = -FixLog10(tol)
    /\ CutTo(prec)
    /\ prec = IF tol.e >= 0 \/ tol.m = 1 THEN -FloorLog10(tol) ELSE -FloorLog10(tol) - 1

\* tol = 0.05: prec = 1, and 0.501 is cut to 0.5
C10_Witness ==
  /\ AfterTruncate
  /\ tol = [m |-> 5, e |-> -2]
  /\ prec = 1
  /\ \E r \in 1..Len(data) : data[r][1] = Half + 1 /\ d_r[r][1] = [neg |-> FALSE, mag |-> Half]

====
